---- MODULE Spec2Model ----
(***************************************************************************)
(* State-machine model of osquery/tables/system/darwin/sip_config.cpp:     *)
(* the table generator genSIPConfig and the persisted-configuration reader *)
(* genCsrConfigFromNvram.  The operating system (os_version table, weakly  *)
(* linked csr_* entry points, IOKit registry) is the environment: every    *)
(* value it hands to the code is drawn at the step where the code reads it.*)
(***************************************************************************)
EXTENDS Integers, Sequences, FiniteSets, TLC

(* ------------------------------ bounds --------------------------------- *)
\* largest number of records the os_version table hands back
MaxRecords == 2
\* longest csr-active-config byte buffer the registry hands back
MaxDataLen == 5

(* ------------------------- environment inputs -------------------------- *)
\* strings that the code parses are sequences of characters
Majors == { <<"9">>, <<"1", "0">>, <<"1", "1">> }
Minors == { <<"9">>, <<"1", "0">>, <<"1", "1">> }
OsVersionRows == [major : Majors, minor : Minors]
OsVersionInputs == UNION { [1..n -> OsVersionRows] : n \in 0..MaxRecords }

\* values csr_get_active_config may store (uint32_t; the last is bits 30 and 0)
ActiveConfigs == {0, 1, 255, 256, 1073741825}
\* values csr_check may return: 0 when allowed, -1 (EPERM) otherwise
CsrCheckReturns == {0, -1}
\* byte values found in the csr-active-config property
DataBytes == {0, 16}
DataInputs == UNION { [1..n -> DataBytes] : n \in 0..MaxDataLen }

(* --------------------------- integer helpers --------------------------- *)
RECURSIVE BitAnd(_, _)
\* a & b on unsigned integers
BitAnd(a, b) ==
  IF a = 0 \/ b = 0 THEN 0
  ELSE (IF a % 2 = 1 /\ b % 2 = 1 THEN 1 ELSE 0) + 2 * BitAnd(a \div 2, b \div 2)

RECURSIVE BitOr(_, _)
\* a | b on unsigned integers
BitOr(a, b) ==
  IF a = 0 THEN b
  ELSE IF b = 0 THEN a
  ELSE (IF a % 2 = 1 \/ b % 2 = 1 THEN 1 ELSE 0) + 2 * BitOr(a \div 2, b \div 2)

\* value of one decimal digit character, -1 for any other character
DigitVal(c) ==
  CASE c = "0" -> 0 [] c = "1" -> 1 [] c = "2" -> 2 [] c = "3" -> 3
    [] c = "4" -> 4 [] c = "5" -> 5 [] c = "6" -> 6 [] c = "7" -> 7
    [] c = "8" -> 8 [] c = "9" -> 9 [] OTHER -> -1

RECURSIVE stoiDigits(_, _)
\* std::stoi after the sign: the longest prefix of digits, base 10
stoiDigits(s, acc) ==
  IF s = << >> \/ DigitVal(Head(s)) < 0 THEN acc
  ELSE stoiDigits(Tail(s), 10 * acc + DigitVal(Head(s)))

\* std::stoi on a string that starts with an optional sign and a digit
stoi(s) ==
  IF s # << >> /\ Head(s) = "-" THEN 0 - stoiDigits(Tail(s), 0)
  ELSE IF s # << >> /\ Head(s) = "+" THEN stoiDigits(Tail(s), 0)
  ELSE stoiDigits(s, 0)

(* ------------------------------ catalogue ------------------------------ *)
\* kRootlessConfigFlags is a std::map<std::string, uint32_t>: range-for
\* visits it in ascending key order, which is the order written here.
kRootlessConfigFlags ==
  << [name |-> "allow_apple_internal",       bit |-> 16],
     [name |-> "allow_device_configuration", bit |-> 128],
     [name |-> "allow_kernel_debugger",      bit |-> 8],
     [name |-> "allow_task_for_pid",         bit |-> 4],
     [name |-> "allow_unrestricted_dtrace",  bit |-> 32],
     [name |-> "allow_unrestricted_fs",      bit |-> 2],
     [name |-> "allow_unrestricted_nvram",   bit |-> 64],
     [name |-> "allow_untrusted_kexts",      bit |-> 1] >>

NumFlags == Len(kRootlessConfigFlags)

RECURSIVE OrBits(_, _)
\* the loop of lines 121-123 from position i on, acc is the value so far
OrBits(i, acc) ==
  IF i > NumFlags THEN acc
  ELSE OrBits(i + 1, BitOr(acc, kRootlessConfigFlags[i].bit))

valid_allowed_flags == OrBits(1, 0)

(* -------------------------------- rows --------------------------------- *)
\* Row is a std::map<std::string, std::string>: r[k] = v inserts or overwrites
RowSet(r, k, v) == [x \in (DOMAIN r) \cup {k} |-> IF x = k THEN v ELSE r[x]]
EmptyRow == [x \in {} |-> ""]
\* INTEGER(x) renders the number as text
INTEGER(x) == IF x = 1 THEN "1" ELSE "0"

\* osquery Status
Status(code, msg) == [code |-> code, msg |-> msg]
StatusOk(s) == s.code = 0

(* ------------------------------- state --------------------------------- *)
VARIABLES
  pc,            \* position in genSIPConfig / genCsrConfigFromNvram
  os_version,    \* line 96: rows of SQL::selectAllFrom("os_version")
  get_bound,     \* csr_get_active_config != nullptr
  check_bound,   \* csr_check != nullptr
  probed,        \* the nullptr test of line 113 has run
  get_calls,     \* number of calls made to csr_get_active_config
  check_rets,    \* values returned by the calls made to csr_check, in order
  config,        \* line 117: csr_config_t config
  r,             \* line 125: Row r
  results,       \* line 109: QueryData results
  nvram_config,  \* line 139: uint32_t nvram_config (the reader's out-parameter)
  nvram_status,  \* line 140: Status returned by genCsrConfigFromNvram
  acquired,      \* OS handles the reader obtained during the call
  released,      \* number of times each OS handle has been released
  entry,         \* the csr-active-config property found by the reader
  copied         \* bytes CFDataGetBytes wrote starting at buffer[0]

vars == << pc, os_version, get_bound, check_bound, probed, get_calls,
           check_rets, config, r, results, nvram_config, nvram_status,
           acquired, released, entry, copied >>

Handles == {"chosen", "properties"}
NoStatus == Status(-1, "")
NoEntry == [kind |-> "none", data |-> << >>]
\* sizeof(buffer), line 82
BufferSize == 4

Init ==
  /\ pc = "select_os_version"
  /\ os_version = << >>
  /\ get_bound = FALSE
  /\ check_bound = FALSE
  /\ probed = FALSE
  /\ get_calls = 0
  /\ check_rets = << >>
  /\ config = 0
  /\ r = EmptyRow
  /\ results = << >>
  /\ nvram_config = 0
  /\ nvram_status = NoStatus
  /\ acquired = {}
  /\ released = [h \in Handles |-> 0]
  /\ entry = NoEntry
  /\ copied = 0

(* ---------------------------- genSIPConfig ----------------------------- *)
\* line 97: the version is known only when the table has exactly one row
VersionUndetermined(v) == Len(v) # 1

\* lines 103-104: the row describes an OS X 10.x release older than 10.11
BeforeElCapitan(row) == row.major = <<"1", "0">> /\ stoi(row.minor) < 11

\* lines 97-107 together: genSIPConfig returns {} before looking at csr_*
VersionGateDenies(v) ==
  IF VersionUndetermined(v) THEN TRUE ELSE BeforeElCapitan(v[1])

\* Variant of EntryPointsBound: only csr_get_active_config is tested
EntryPointsBound_GetOnly(g, c) == g

\* line 113, negated: both weakly linked symbols resolved
EntryPointsBound(g, c) == g /\ c

\* Variant of AggregateRow: the two outcomes are exchanged
AggregateRow_Inverted(cfg) ==
  LET r0 == RowSet(EmptyRow, "config_flag", "sip") IN
  IF cfg = 0
    THEN RowSet(RowSet(r0, "enabled", INTEGER(0)), "enabled_nvram", INTEGER(0))
  ELSE IF BitOr(cfg, valid_allowed_flags) = valid_allowed_flags
    THEN RowSet(RowSet(r0, "enabled", INTEGER(1)), "enabled_nvram", INTEGER(1))
  ELSE r0

\* Variant of AggregateRow: the second test is (config & valid) != 0, so a
\* configuration with an unknown bit beside a known one counts as disabled
AggregateRow_AnyKnownBit(cfg) ==
  LET r0 == RowSet(EmptyRow, "config_flag", "sip") IN
  IF cfg = 0
    THEN RowSet(RowSet(r0, "enabled", INTEGER(1)), "enabled_nvram", INTEGER(1))
  ELSE IF BitAnd(cfg, valid_allowed_flags) # 0
    THEN RowSet(RowSet(r0, "enabled", INTEGER(0)), "enabled_nvram", INTEGER(0))
  ELSE r0

\* lines 125-136: the "sip" row built from the active configuration
AggregateRow(cfg) ==
  LET r0 == RowSet(EmptyRow, "config_flag", "sip") IN
  IF cfg = 0
    THEN RowSet(RowSet(r0, "enabled", INTEGER(1)), "enabled_nvram", INTEGER(1))
  ELSE IF BitOr(cfg, valid_allowed_flags) = valid_allowed_flags
    THEN RowSet(RowSet(r0, "enabled", INTEGER(0)), "enabled_nvram", INTEGER(0))
  ELSE r0

\* Variant of FlagRow: the row's name is never replaced
FlagRow_KeepsName(row, kv, ret, status, nv) ==
  LET r2 == RowSet(row, "enabled", IF ret = 0 THEN INTEGER(1) ELSE INTEGER(0))
  IN IF StatusOk(status)
       THEN RowSet(r2, "enabled_nvram",
                   IF BitAnd(nv, kv.bit) # 0 THEN INTEGER(1) ELSE INTEGER(0))
       ELSE r2

\* Variant of FlagRow: the persisted value is or-ed with the mask
FlagRow_OrMask(row, kv, ret, status, nv) ==
  LET r1 == RowSet(row, "config_flag", kv.name)
      r2 == RowSet(r1, "enabled", IF ret = 0 THEN INTEGER(1) ELSE INTEGER(0))
  IN IF StatusOk(status)
       THEN RowSet(r2, "enabled_nvram",
                   IF BitOr(nv, kv.bit) # 0 THEN INTEGER(1) ELSE INTEGER(0))
       ELSE r2

\* lines 142-147: the shared Row r after one pass of the loop body for kv,
\* ret being what csr_check(kv.second) returned
FlagRow(row, kv, ret, status, nv) ==
  LET r1 == RowSet(row, "config_flag", kv.name)
      r2 == RowSet(r1, "enabled", IF ret = 0 THEN INTEGER(1) ELSE INTEGER(0))
  IN IF StatusOk(status)
       THEN RowSet(r2, "enabled_nvram",
                   IF BitAnd(nv, kv.bit) # 0 THEN INTEGER(1) ELSE INTEGER(0))
       ELSE r2

\* line 96
SelectOsVersion ==
  /\ pc = "select_os_version"
  /\ \E v \in OsVersionInputs : os_version' = v
  /\ pc' = "check_version"
  /\ UNCHANGED << get_bound, check_bound, probed, get_calls, check_rets,
                  config, r, results, nvram_config, nvram_status, acquired,
                  released, entry, copied >>

\* lines 97-107
CheckVersion ==
  /\ pc = "check_version"
  /\ pc' = IF VersionGateDenies(os_version) THEN "done" ELSE "probe"
  /\ UNCHANGED << os_version, get_bound, check_bound, probed, get_calls,
                  check_rets, config, r, results, nvram_config, nvram_status,
                  acquired, released, entry, copied >>

\* lines 109-115: the dynamic linker decided which symbols are bound
ProbeEntryPoints ==
  /\ pc = "probe"
  /\ \E g \in BOOLEAN, c \in BOOLEAN :
       /\ get_bound' = g
       /\ check_bound' = c
       /\ pc' = IF EntryPointsBound(g, c) THEN "get_active_config" ELSE "done"
  /\ probed' = TRUE
  /\ UNCHANGED << os_version, get_calls, check_rets, config, r, results,
                  nvram_config, nvram_status, acquired, released, entry,
                  copied >>

\* lines 117-118
GetActiveConfig ==
  /\ pc = "get_active_config"
  /\ \E c \in ActiveConfigs : config' = c
  /\ get_calls' = get_calls + 1
  /\ pc' = "aggregate"
  /\ UNCHANGED << os_version, get_bound, check_bound, probed, check_rets, r,
                  results, nvram_config, nvram_status, acquired, released,
                  entry, copied >>

\* lines 120-139
BuildAggregate ==
  /\ pc = "aggregate"
  /\ r' = AggregateRow(config)
  /\ results' = Append(results, r')
  /\ nvram_config' = 0
  /\ pc' = "nvram_open"
  /\ UNCHANGED << os_version, get_bound, check_bound, probed, get_calls,
                  check_rets, config, nvram_status, acquired, released,
                  entry, copied >>

(* ------------------------ genCsrConfigFromNvram ------------------------ *)
\* outcomes of IORegistryEntryCreateCFProperties, lines 63-64
PropertiesOutcomes == {"kr_failure", "null_properties", "dictionary"}
\* what CFDictionaryGetValueIfPresent finds under "csr-active-config"
Entries ==
  {[kind |-> "absent", data |-> << >>], [kind |-> "not_data", data |-> << >>]}
    \cup {[kind |-> "data", data |-> d] : d \in DataInputs}

\* line 59
NodeUnavailableStatus == Status(1, "Could not open IOKit DeviceTree")
\* line 68
PropertiesFailedStatus == Status(1, "Could not get IOKit options")
\* line 72
PropertiesNullStatus == Status(1, "Could not load IOKit properties")
\* line 79
UnexpectedTypeStatus == Status(1, "Unexpected data type for csr-active-config")
\* line 88
ReadOkStatus == Status(0, "ok")
\* Variant of KeyNotFoundStatus: a missing key is reported as a failure
KeyNotFoundStatus_Failure == Status(1, "csr-active-config key not found")
\* line 91
KeyNotFoundStatus == Status(0, "csr-active-config key not found")

\* line 84: the range handed to CFDataGetBytes is the whole CFData, so the
\* number of bytes written from buffer[0] on is the length of the data
BytesWritten(d) == Len(d)

\* lines 82-85: buffer[0..3] after the copy; bytes past the data keep the 0
\* of the initialiser
StagingBuffer(d) == [i \in 1..BufferSize |-> IF i <= Len(d) THEN d[i] ELSE 0]

RECURSIVE LittleEndian(_, _)
\* line 87: memcpy of the buffer into a uint32_t on a little-endian host,
\* bytes i..BufferSize of the buffer weighted 256^(i-1) and up
LittleEndian(buf, i) ==
  IF i > BufferSize THEN 0 ELSE buf[i] + 256 * LittleEndian(buf, i + 1)

\* lines 56-60
NvramOpen ==
  /\ pc = "nvram_open"
  /\ \E ok \in BOOLEAN :
       IF ok
         THEN /\ acquired' = acquired \cup {"chosen"}
              /\ pc' = "nvram_properties"
              /\ UNCHANGED nvram_status
         ELSE /\ nvram_status' = NodeUnavailableStatus
              /\ pc' = "nvram_return"
              /\ UNCHANGED acquired
  /\ UNCHANGED << os_version, get_bound, check_bound, probed, get_calls,
                  check_rets, config, r, results, nvram_config, released,
                  entry, copied >>

\* lines 62-73
NvramProperties ==
  /\ pc = "nvram_properties"
  /\ released' = [released EXCEPT !["chosen"] = @ + 1]
  /\ \E o \in PropertiesOutcomes :
       CASE o = "kr_failure" ->
              /\ nvram_status' = PropertiesFailedStatus
              /\ pc' = "nvram_return"
              /\ UNCHANGED acquired
         [] o = "null_properties" ->
              /\ nvram_status' = PropertiesNullStatus
              /\ pc' = "nvram_return"
              /\ UNCHANGED acquired
         [] o = "dictionary" ->
              /\ acquired' = acquired \cup {"properties"}
              /\ pc' = "nvram_lookup"
              /\ UNCHANGED nvram_status
  /\ UNCHANGED << os_version, get_bound, check_bound, probed, get_calls,
                  check_rets, config, r, results, nvram_config, entry,
                  copied >>

\* lines 75-92.  A CFData longer than the buffer makes CFDataGetBytes write
\* past buffer[3]: what follows is undefined, and is modelled by the outcomes
\* a build can show: the function carries on, the reference to the
\* out-parameter was overwritten on the stack so the caller's value is left
\* alone, or the process is stopped.
NvramLookup ==
  /\ pc = "nvram_lookup"
  /\ \E e \in Entries :
       /\ entry' = e
       /\ CASE e.kind = "absent" ->
                 /\ nvram_status' = KeyNotFoundStatus
                 /\ pc' = "nvram_return"
                 /\ UNCHANGED << nvram_config, released, copied >>
            [] e.kind = "not_data" ->
                 /\ nvram_status' = UnexpectedTypeStatus
                 /\ pc' = "nvram_return"
                 /\ UNCHANGED << nvram_config, released, copied >>
            [] e.kind = "data" ->
                 /\ copied' = BytesWritten(e.data)
                 /\ IF BytesWritten(e.data) <= BufferSize
                      THEN /\ released' = [released EXCEPT !["properties"] = @ + 1]
                           /\ nvram_config' = LittleEndian(StagingBuffer(e.data), 1)
                           /\ nvram_status' = ReadOkStatus
                           /\ pc' = "nvram_return"
                      ELSE \E ub \in {"carries_on", "config_untouched", "stopped"} :
                             IF ub = "stopped"
                               THEN /\ pc' = "crashed"
                                    /\ UNCHANGED << released, nvram_config,
                                                    nvram_status >>
                               ELSE /\ released' =
                                         [released EXCEPT !["properties"] = @ + 1]
                                    /\ nvram_config' =
                                         IF ub = "carries_on"
                                           THEN LittleEndian(StagingBuffer(e.data), 1)
                                           ELSE nvram_config
                                    /\ nvram_status' = ReadOkStatus
                                    /\ pc' = "nvram_return"
  /\ UNCHANGED << os_version, get_bound, check_bound, probed, get_calls,
                  check_rets, config, r, results, acquired >>

\* line 140: control is back in genSIPConfig, the reader's locals are gone
NvramReturn ==
  /\ pc = "nvram_return"
  /\ entry' = NoEntry
  /\ copied' = 0
  /\ pc' = "loop"
  /\ UNCHANGED << os_version, get_bound, check_bound, probed, get_calls,
                  check_rets, config, r, results, nvram_config, nvram_status,
                  acquired, released >>

(* ----------------------- genSIPConfig, second half --------------------- *)
\* lines 141-149, one pass of the loop; the flag visited is the one after
\* those csr_check has already been called for
FlagLoop ==
  /\ pc = "loop"
  /\ Len(check_rets) < NumFlags
  /\ \E ret \in CsrCheckReturns :
       /\ check_rets' = Append(check_rets, ret)
       /\ r' = FlagRow(r, kRootlessConfigFlags[Len(check_rets) + 1], ret,
                       nvram_status, nvram_config)
       /\ results' = Append(results, r')
  /\ UNCHANGED << pc, os_version, get_bound, check_bound, probed, get_calls,
                  config, nvram_config, nvram_status, acquired, released,
                  entry, copied >>

\* line 152
ReturnResults ==
  /\ pc = "loop"
  /\ Len(check_rets) = NumFlags
  /\ pc' = "done"
  /\ UNCHANGED << os_version, get_bound, check_bound, probed, get_calls,
                  check_rets, config, r, results, nvram_config, nvram_status,
                  acquired, released, entry, copied >>

Next ==
  \/ SelectOsVersion
  \/ CheckVersion
  \/ ProbeEntryPoints
  \/ GetActiveConfig
  \/ BuildAggregate
  \/ NvramOpen
  \/ NvramProperties
  \/ NvramLookup
  \/ NvramReturn
  \/ FlagLoop
  \/ ReturnResults

Spec == Init /\ [][Next]_vars

(* ============================== properties ============================= *)
Done == pc = "done"
HasField(row, k) == k \in DOMAIN row
\* the bit of a single-bit mask is set in v
BitSet(v, mask) == (v \div mask) % 2 = 1
\* the row emitted for the i-th catalogue flag
FlagResult(i) == results[i + 1]
FlagIndexes == 1..NumFlags
CanonicalNames ==
  {"allow_untrusted_kexts", "allow_unrestricted_fs", "allow_task_for_pid",
   "allow_kernel_debugger", "allow_apple_internal", "allow_unrestricted_dtrace",
   "allow_unrestricted_nvram", "allow_device_configuration"}
SipRow(v) == [config_flag |-> "sip", enabled |-> v, enabled_nvram |-> v]
HardErrors == {NodeUnavailableStatus, PropertiesFailedStatus,
               PropertiesNullStatus, UnexpectedTypeStatus}
\* text of a truth value as the table shows it
Shown(b) == IF b THEN "1" ELSE "0"

RECURSIVE PrefixValue(_, _, _)
\* sum over i < k of d[i] * 256^i, bytes counted from 0, from byte j on
PrefixValue(d, j, k) ==
  IF j > k THEN 0 ELSE d[j] + 256 * PrefixValue(d, j + 1, k)
Min(a, b) == IF a < b THEN a ELSE b

\* C1 (as claimed): genSIPConfig returns at least one observation only if
\* os_version has exactly one row whose major is "10" and whose minor is
\* at least 11; for every other input the result is empty.
C1_GateRequiresTenEleven ==
  (Done /\ results # << >>) =>
     /\ Len(os_version) = 1
     /\ os_version[1].major = <<"1", "0">>
     /\ stoi(os_version[1].minor) >= 11

\* C2: once the gate has passed with both entry points bound, the "sip" row
\* depends on active_config alone, whatever the persisted read gives:
\* config = 0 gives enabled = enabled_nvram = 1, a non-zero config with all
\* its bits inside 0xFF gives enabled = enabled_nvram = 0.
C2_AggregateFromActiveConfig ==
  results # << >> =>
     /\ config = 0 => results[1] = SipRow("1")
     /\ config \in 1..255 => results[1] = SipRow("0")

C2_Witness ==
  /\ Done
  /\ config = 1
  /\ nvram_status = NodeUnavailableStatus
  /\ results[1] = SipRow("0")

\* C3: a non-empty result has exactly 1 + 8 rows, the first named "sip" and
\* no other; the other eight carry the catalogue's names, one each, in the
\* catalogue's enumeration order.
C3_ResultShape ==
  (Done /\ results # << >>) =>
     /\ Len(results) = 1 + 8
     /\ results[1]["config_flag"] = "sip"
     /\ \A i \in FlagIndexes :
          /\ FlagResult(i)["config_flag"] = kRootlessConfigFlags[i].name
          /\ FlagResult(i)["config_flag"] # "sip"
     /\ {FlagResult(i)["config_flag"] : i \in FlagIndexes} = CanonicalNames
     /\ \A i, j \in FlagIndexes :
          FlagResult(i)["config_flag"] = FlagResult(j)["config_flag"] => i = j

C3_Witness ==
  /\ Done
  /\ Len(results) = 9
  /\ config = 256
  /\ nvram_status = KeyNotFoundStatus
  /\ check_rets[1] = 0
  /\ check_rets[2] = -1

\* C4: when the property was read as a byte buffer giving the raw value
\* nvram_config, the row of each flag has enabled = 1 exactly when csr_check
\* returned 0 for its bit, whatever active_config holds, and
\* enabled_nvram = 1 exactly when the flag's bit is set in nvram_config.
C4_PerFlagValues ==
  (Done /\ nvram_status = ReadOkStatus) =>
     \A i \in FlagIndexes :
        /\ FlagResult(i)["enabled"] = Shown(check_rets[i] = 0)
        /\ FlagResult(i)["enabled_nvram"] =
             Shown(BitSet(nvram_config, kRootlessConfigFlags[i].bit))
        /\ nvram_config = 16 =>
             FlagResult(i)["enabled_nvram"] =
               Shown(kRootlessConfigFlags[i].name = "allow_apple_internal")

C4_Witness ==
  /\ Done
  /\ nvram_status = ReadOkStatus
  /\ nvram_config = 16
  /\ config = 1
  /\ check_rets[8] = -1
  /\ check_rets[1] = 0
  /\ FlagResult(1)["enabled_nvram"] = "1"

\* C5 (as claimed): when the csr-active-config key is absent, none of the
\* eight per-flag rows has an enabled_nvram field.
C5_AbsentOmitsNvram ==
  (Done /\ nvram_status = KeyNotFoundStatus) =>
     \A i \in FlagIndexes : ~HasField(FlagResult(i), "enabled_nvram")

\* C5 (amended): when the csr-active-config key is absent, each of the eight
\* per-flag rows has enabled_nvram = 0, for every value of active_config.
C5_AbsentGivesZero ==
  (Done /\ nvram_status = KeyNotFoundStatus) =>
     \A i \in FlagIndexes :
        /\ HasField(FlagResult(i), "enabled_nvram")
        /\ FlagResult(i)["enabled_nvram"] = "0"

C5_Witness ==
  /\ Done
  /\ nvram_status = KeyNotFoundStatus
  /\ config = 0
  /\ results[1] = SipRow("1")
  /\ FlagResult(8)["enabled_nvram"] = "0"

\* C6 (as claimed): when the persisted read fails with a hard error, the
\* "sip" row and the eight per-flag rows are still emitted with their live
\* enabled values, and no per-flag row has an enabled_nvram field.
C6_ErrorOmitsNvram ==
  (Done /\ nvram_status \in HardErrors) =>
     /\ Len(results) = 1 + 8
     /\ results[1]["config_flag"] = "sip"
     /\ \A i \in FlagIndexes :
          /\ FlagResult(i)["enabled"] = Shown(check_rets[i] = 0)
          /\ ~HasField(FlagResult(i), "enabled_nvram")

\* C7: if either live entry point is unbound the result is empty and
\* neither entry point (nor the persisted reader) is ever invoked: no call
\* to csr_get_active_config or csr_check exists before the probe has found
\* both bound.
C7_ProbeBeforeCalls ==
  /\ (get_calls > 0 \/ check_rets # << >>) =>
        (probed /\ get_bound /\ check_bound)
  /\ (probed /\ ~(get_bound /\ check_bound)) =>
        /\ pc = "done"
        /\ results = << >>
        /\ get_calls = 0
        /\ check_rets = << >>
        /\ nvram_status = NoStatus

C7_Witness ==
  /\ Done
  /\ probed
  /\ get_bound
  /\ ~check_bound
  /\ results = << >>

\* C8 (as claimed): when genCsrConfigFromNvram returns, every handle it
\* acquired has been released exactly once and no other handle was released.
C8_HandlesReleased ==
  pc = "nvram_return" =>
     \A h \in Handles : released[h] = IF h \in acquired THEN 1 ELSE 0

\* C9: when active_config has a bit outside 0xFF the "sip" row is still
\* first and carries neither enabled nor enabled_nvram, and the eight
\* per-flag rows are emitted as usual.
C9_UnknownBitsLeaveAggregateUnset ==
  (results # << >> /\ config \div 256 > 0) =>
     /\ results[1]["config_flag"] = "sip"
     /\ ~HasField(results[1], "enabled")
     /\ ~HasField(results[1], "enabled_nvram")
     /\ Done =>
          /\ Len(results) = 1 + 8
          /\ \A i \in FlagIndexes :
               /\ FlagResult(i)["config_flag"] = kRootlessConfigFlags[i].name
               /\ FlagResult(i)["enabled"] = Shown(check_rets[i] = 0)

C9_Witness ==
  /\ Done
  /\ config = 1073741825
  /\ Len(results) = 9
  /\ DOMAIN results[1] = {"config_flag"}

\* C10 (as claimed): for a byte buffer of any length n the reader writes at
\* most 4 bytes into its staging buffer and returns success with the first
\* min(n, 4) bytes read little-endian.
C10_AtMostFourBytes ==
  (pc \in {"nvram_return", "crashed"} /\ entry.kind = "data") =>
     /\ copied <= BufferSize
     /\ pc = "nvram_return"
     /\ StatusOk(nvram_status)
     /\ nvram_config =
          PrefixValue(entry.data, 1, Min(Len(entry.data), BufferSize))

====
